---- MODULE Spec2Model ----
(***************************************************************************)
(* Model of humre (src/src/humre/__init__.py): the functions that compose  *)
(* regex source text from fragments.                                       *)
(*                                                                         *)
(* A Python str is a sequence of one-character strings.  A Python value    *)
(* passed as a numeric argument is a record [type, val]; isinstance(x,int) *)
(* is a test of its type.  bool, a subclass of int, is not among the       *)
(* values drawn.  A call's outcome is either a returned str or a raised    *)
(* exception (its class and its message).                                  *)
(***************************************************************************)
EXTENDS Integers, Sequences, FiniteSets, TLC

VARIABLES
    frags,            \* the fragments the next call is given (*listOfRegexStrs)
    calls,            \* how many calls have been composed so far
    op,               \* the function called last
    nums,             \* the numeric arguments of that call, in order
    name,             \* the name argument of that call (named_group)
    listOfRegexStrs,  \* the fragments that call was given
    out               \* what that call returned or raised

vars == <<frags, calls, op, nums, name, listOfRegexStrs, out>>

----------------------------------------------------------------------------
\* Bounds of the model.

MaxFrags == 3       \* fragments per call
MaxQuantity == 10   \* integer arguments range over -1 .. MaxQuantity
MaxName == 3        \* characters in a group name
MaxDepth == 2       \* calls composed one inside the other (SpecNest)

----------------------------------------------------------------------------
\* Python values.

PyInt(n) == [type |-> "int", val |-> n]
PyNone == [type |-> "NoneType", val |-> 0]
PyStr2 == [type |-> "str", val |-> 2]     \* the str '2', not an int

isinstance_int(x) == x.type = "int"

Return(s) == [ok |-> TRUE, val |-> s, exc |-> "", msg |-> ""]
Raise(e, m) == [ok |-> FALSE, val |-> <<>>, exc |-> e, msg |-> m]
NoCall == [ok |-> TRUE, val |-> <<>>, exc |-> "", msg |-> "no call"]

\* The messages of the module's raise statements.
MsgQuantity == "quantity must be a positive int"
MsgMinimum == "minimum must be a positive int"
MsgMaximum == "maximum must be a positive int"
MsgMinGreater == "minimum greater than maximum"
MsgNonblank == "listOfRegexStrs must have at least one nonblank value"
MsgName == "name must contain only letters, numbers, and underscore and not start with a number"

----------------------------------------------------------------------------
\* str.join and str(int).

RECURSIVE join(_, _)
join(sep, strs) ==
    IF strs = <<>> THEN <<>>
    ELSE IF Len(strs) = 1 THEN strs[1]
    ELSE strs[1] \o sep \o join(sep, Tail(strs))

DigitChar(d) ==
    CASE d = 0 -> "0" [] d = 1 -> "1" [] d = 2 -> "2" [] d = 3 -> "3"
      [] d = 4 -> "4" [] d = 5 -> "5" [] d = 6 -> "6" [] d = 7 -> "7"
      [] d = 8 -> "8" [] d = 9 -> "9"

RECURSIVE str(_)
str(n) ==
    IF n < 0 THEN <<"-">> \o str(-n)
    ELSE IF n < 10 THEN <<DigitChar(n)>>
    ELSE str(n \div 10) \o <<DigitChar(n % 10)>>

----------------------------------------------------------------------------
\* re.match on the two patterns named_group uses.

Letters == {"y", "r", "Z"}
DigitChars == {"0", "1", "2", "3", "4", "5", "6", "7", "8", "9"}
\* \w: letters, digits and the underscore.
WordChars == Letters \cup DigitChars \cup {"_"}

\* re.match(r'\w+', s): the length of the longest prefix of word characters
\* (the match is anchored at the start only), 0 standing for None.
RECURSIVE match_word_plus(_)
match_word_plus(s) ==
    IF s = <<>> \/ Head(s) \notin WordChars THEN 0
    ELSE 1 + match_word_plus(Tail(s))

\* re.match(r'^\d', s) is not None
match_leading_digit(s) == s # <<>> /\ Head(s) \in DigitChars

----------------------------------------------------------------------------
\* The composition functions.

\* group, joining its fragments with "|".
group_joined_with_bar(strs) == Return(<<"(">> \o join(<<"|">>, strs) \o <<")">>)

group(strs) == Return(<<"(">> \o join(<<>>, strs) \o <<")">>)

positive_lookahead(strs) == Return(<<"(", "?", "=">> \o join(<<>>, strs) \o <<")">>)

negative_lookahead(strs) == Return(<<"(", "?", "!">> \o join(<<>>, strs) \o <<")">>)

positive_lookbehind(strs) == Return(<<"(", "?", "<", "=">> \o join(<<>>, strs) \o <<")">>)

negative_lookbehind(strs) == Return(<<"(", "?", "<", "!">> \o join(<<>>, strs) \o <<")">>)

named_group(nm, strs) ==
    IF match_word_plus(nm) = 0 \/ match_leading_digit(nm)
    THEN Raise("ValueError", MsgName)
    ELSE Return(<<"(", "?", "P", "<">> \o nm \o <<">">> \o join(<<>>, strs) \o <<")">>)

noncapturing_group(strs) == Return(<<"(", "?", ":">> \o join(<<>>, strs) \o <<")">>)

optional(strs) ==
    LET regexStr == join(<<>>, strs) IN
    IF regexStr = <<>> THEN Raise("ValueError", MsgNonblank)
    ELSE Return(regexStr \o <<"?">>)

\* either, without the filter on empty fragments.
either_unfiltered(strs) ==
    IF Len(strs) = 0 THEN Raise("ValueError", MsgNonblank)
    ELSE Return(join(<<"|">>, strs))

either(strs) ==
    LET kept == SelectSeq(strs, LAMBDA s : s # <<>>) IN
    IF Len(kept) = 0 THEN Raise("ValueError", MsgNonblank)
    ELSE Return(join(<<"|">>, kept))

\* exactly, raising the message of the empty-fragments check for a negative quantity.
exactly_wrong_message(quantity, strs) ==
    IF ~isinstance_int(quantity) THEN Raise("TypeError", MsgQuantity)
    ELSE IF quantity.val < 0 THEN Raise("ValueError", MsgNonblank)
    ELSE LET regexStr == join(<<>>, strs) IN
         IF regexStr = <<>> THEN Raise("ValueError", MsgNonblank)
         ELSE Return(regexStr \o <<"{">> \o str(quantity.val) \o <<"}">>)

exactly(quantity, strs) ==
    IF ~isinstance_int(quantity) THEN Raise("TypeError", MsgQuantity)
    ELSE IF quantity.val < 0 THEN Raise("ValueError", MsgQuantity)
    ELSE LET regexStr == join(<<>>, strs) IN
         IF regexStr = <<>> THEN Raise("ValueError", MsgNonblank)
         ELSE Return(regexStr \o <<"{">> \o str(quantity.val) \o <<"}">>)

\* between, rejecting minimum = maximum.
between_strict(minimum, maximum, strs) ==
    IF ~isinstance_int(minimum) THEN Raise("TypeError", MsgMinimum)
    ELSE IF minimum.val < 0 THEN Raise("ValueError", MsgMinimum)
    ELSE IF ~isinstance_int(maximum) THEN Raise("TypeError", MsgMaximum)
    ELSE IF maximum.val < 0 THEN Raise("ValueError", MsgMaximum)
    ELSE IF minimum.val >= maximum.val THEN Raise("ValueError", MsgMinGreater)
    ELSE LET regexStr == join(<<>>, strs) IN
         IF regexStr = <<>> THEN Raise("ValueError", MsgNonblank)
         ELSE Return(regexStr \o <<"{">> \o str(minimum.val) \o <<",">>
                     \o str(maximum.val) \o <<"}">>)

between(minimum, maximum, strs) ==
    IF ~isinstance_int(minimum) THEN Raise("TypeError", MsgMinimum)
    ELSE IF minimum.val < 0 THEN Raise("ValueError", MsgMinimum)
    ELSE IF ~isinstance_int(maximum) THEN Raise("TypeError", MsgMaximum)
    ELSE IF maximum.val < 0 THEN Raise("ValueError", MsgMaximum)
    ELSE IF minimum.val > maximum.val THEN Raise("ValueError", MsgMinGreater)
    ELSE LET regexStr == join(<<>>, strs) IN
         IF regexStr = <<>> THEN Raise("ValueError", MsgNonblank)
         ELSE Return(regexStr \o <<"{">> \o str(minimum.val) \o <<",">>
                     \o str(maximum.val) \o <<"}">>)

at_least(minimum, strs) ==
    IF ~isinstance_int(minimum) THEN Raise("TypeError", MsgMinimum)
    ELSE IF minimum.val < 0 THEN Raise("ValueError", MsgMinimum)
    ELSE LET regexStr == join(<<>>, strs) IN
         IF regexStr = <<>> THEN Raise("ValueError", MsgNonblank)
         ELSE Return(regexStr \o <<"{">> \o str(minimum.val) \o <<",", "}">>)

at_most(maximum, strs) ==
    IF ~isinstance_int(maximum) THEN Raise("TypeError", MsgMaximum)
    ELSE IF maximum.val < 0 THEN Raise("ValueError", MsgMaximum)
    ELSE LET regexStr == join(<<>>, strs) IN
         IF regexStr = <<>> THEN Raise("ValueError", MsgNonblank)
         ELSE Return(regexStr \o <<"{", ",">> \o str(maximum.val) \o <<"}">>)

\* zero_or_more, without the check on empty fragments.
zero_or_more_unchecked(strs) == Return(join(<<>>, strs) \o <<"*">>)

zero_or_more(strs) ==
    LET regexStr == join(<<>>, strs) IN
    IF regexStr = <<>> THEN Raise("ValueError", MsgNonblank)
    ELSE Return(join(<<>>, strs) \o <<"*">>)

zero_or_more_lazy(strs) ==
    LET regexStr == join(<<>>, strs) IN
    IF regexStr = <<>> THEN Raise("ValueError", MsgNonblank)
    ELSE Return(regexStr \o <<"*", "?">>)

one_or_more(strs) ==
    LET regexStr == join(<<>>, strs) IN
    IF regexStr = <<>> THEN Raise("ValueError", MsgNonblank)
    ELSE Return(regexStr \o <<"+">>)

one_or_more_lazy(strs) ==
    LET regexStr == join(<<>>, strs) IN
    IF regexStr = <<>> THEN Raise("ValueError", MsgNonblank)
    ELSE Return(regexStr \o <<"+", "?">>)

starts_with(strs) == Return(<<"^">> \o join(<<>>, strs))

ends_with(strs) == Return(join(<<>>, strs) \o <<"$">>)

starts_and_ends_with(strs) == Return(<<"^">> \o join(<<>>, strs) \o <<"$">>)

chars(strs) ==
    LET regexStr == join(<<>>, strs) IN
    IF regexStr = <<>> THEN Raise("ValueError", MsgNonblank)
    ELSE Return(<<"[">> \o regexStr \o <<"]">>)

\* nonchars, without the check on empty fragments.
nonchars_unchecked(strs) == Return(<<"[", "^">> \o join(<<>>, strs) \o <<"]">>)

nonchars(strs) ==
    LET regexStr == join(<<>>, strs) IN
    IF regexStr = <<>> THEN Raise("ValueError", MsgNonblank)
    ELSE Return(<<"[", "^">> \o regexStr \o <<"]">>)

\* optional_group, without the closing parenthesis.
optional_group_unclosed(strs) == Return(<<"(">> \o join(<<>>, strs) \o <<"?">>)

optional_group(strs) == Return(<<"(">> \o join(<<>>, strs) \o <<")", "?">>)

\* group_either, without the filter on empty fragments.
group_either_unfiltered(strs) == Return(<<"(">> \o join(<<"|">>, strs) \o <<")">>)

group_either(strs) ==
    LET kept == SelectSeq(strs, LAMBDA s : s # <<>>) IN
    Return(<<"(">> \o join(<<"|">>, kept) \o <<")">>)

group_exactly(quantity, strs) ==
    IF ~isinstance_int(quantity) THEN Raise("TypeError", MsgQuantity)
    ELSE IF quantity.val < 0 THEN Raise("ValueError", MsgQuantity)
    ELSE Return(<<"(">> \o join(<<>>, strs) \o <<")", "{">> \o str(quantity.val) \o <<"}">>)

\* group_between, without the comparison of minimum and maximum.
group_between_unordered(minimum, maximum, strs) ==
    IF ~isinstance_int(minimum) THEN Raise("TypeError", MsgMinimum)
    ELSE IF minimum.val < 0 THEN Raise("ValueError", MsgMinimum)
    ELSE IF ~isinstance_int(maximum) THEN Raise("TypeError", MsgMaximum)
    ELSE IF maximum.val < 0 THEN Raise("ValueError", MsgMaximum)
    ELSE Return(<<"(">> \o join(<<>>, strs) \o <<")", "{">> \o str(minimum.val)
                \o <<",">> \o str(maximum.val) \o <<"}">>)

group_between(minimum, maximum, strs) ==
    IF ~isinstance_int(minimum) THEN Raise("TypeError", MsgMinimum)
    ELSE IF minimum.val < 0 THEN Raise("ValueError", MsgMinimum)
    ELSE IF ~isinstance_int(maximum) THEN Raise("TypeError", MsgMaximum)
    ELSE IF maximum.val < 0 THEN Raise("ValueError", MsgMaximum)
    ELSE IF minimum.val > maximum.val THEN Raise("ValueError", MsgMinGreater)
    ELSE Return(<<"(">> \o join(<<>>, strs) \o <<")", "{">> \o str(minimum.val)
                \o <<",">> \o str(maximum.val) \o <<"}">>)

\* group_at_least, with the check on empty fragments that at_least makes.
group_at_least_checked(minimum, strs) ==
    IF ~isinstance_int(minimum) THEN Raise("TypeError", MsgMinimum)
    ELSE IF minimum.val < 0 THEN Raise("ValueError", MsgMinimum)
    ELSE IF join(<<>>, strs) = <<>> THEN Raise("ValueError", MsgNonblank)
    ELSE Return(<<"(">> \o join(<<>>, strs) \o <<")", "{">> \o str(minimum.val) \o <<",", "}">>)

group_at_least(minimum, strs) ==
    IF ~isinstance_int(minimum) THEN Raise("TypeError", MsgMinimum)
    ELSE IF minimum.val < 0 THEN Raise("ValueError", MsgMinimum)
    ELSE Return(<<"(">> \o join(<<>>, strs) \o <<")", "{">> \o str(minimum.val) \o <<",", "}">>)

group_at_most(maximum, strs) ==
    IF ~isinstance_int(maximum) THEN Raise("TypeError", MsgMaximum)
    ELSE IF maximum.val < 0 THEN Raise("ValueError", MsgMaximum)
    ELSE Return(<<"(">> \o join(<<>>, strs) \o <<")", "{", ",">> \o str(maximum.val) \o <<"}">>)

zero_or_more_group(strs) == Return(<<"(">> \o join(<<>>, strs) \o <<")", "*">>)

one_or_more_group(strs) == Return(<<"(">> \o join(<<>>, strs) \o <<")", "+">>)

group_chars(strs) ==
    LET regexStr == join(<<>>, strs) IN
    IF regexStr = <<>> THEN Raise("ValueError", MsgNonblank)
    ELSE Return(<<"(", "[">> \o regexStr \o <<"]", ")">>)

group_nonchars(strs) ==
    LET regexStr == join(<<>>, strs) IN
    IF regexStr = <<>> THEN Raise("ValueError", MsgNonblank)
    ELSE Return(<<"(", "[", "^">> \o regexStr \o <<"]", ")">>)

----------------------------------------------------------------------------
\* The inputs calls are given.

Atoms == {<<>>, <<"a">>, <<"b">>}
FragLists == UNION {[1..n -> Atoms] : n \in 0..MaxFrags}

Quantities == {PyInt(n) : n \in -1..MaxQuantity} \cup {PyNone, PyStr2}

NameChars == {"y", "_", "2", "-"}
Names == UNION {[1..n -> NameChars] : n \in 0..MaxName}

\* The arguments of the calls that are composed inside one another (SpecNest).
NestFragLists == {<<>>} \cup {<<x>> : x \in Atoms}
NestQuantities == {PyInt(2)}
NestNames == {<<"y">>, <<"y", "-">>}

----------------------------------------------------------------------------
\* One call: function o is given the numeric arguments ns, the name nm and the
\* fragments frags; what it returns is the fragment the next call is given.

Do(o, ns, nm, result) ==
    /\ op' = o
    /\ nums' = ns
    /\ name' = nm
    /\ listOfRegexStrs' = frags
    /\ out' = result
    /\ frags' = IF result.ok THEN <<result.val>> ELSE frags
    /\ calls' = calls + 1

Call_group(D) ==
    calls < D /\ Do("group", <<>>, <<>>, group(frags))

Call_positive_lookahead(D) ==
    calls < D /\ Do("positive_lookahead", <<>>, <<>>, positive_lookahead(frags))

Call_negative_lookahead(D) ==
    calls < D /\ Do("negative_lookahead", <<>>, <<>>, negative_lookahead(frags))

Call_positive_lookbehind(D) ==
    calls < D /\ Do("positive_lookbehind", <<>>, <<>>, positive_lookbehind(frags))

Call_negative_lookbehind(D) ==
    calls < D /\ Do("negative_lookbehind", <<>>, <<>>, negative_lookbehind(frags))

Call_noncapturing_group(D) ==
    calls < D /\ Do("noncapturing_group", <<>>, <<>>, noncapturing_group(frags))

Call_optional(D) ==
    calls < D /\ Do("optional", <<>>, <<>>, optional(frags))

Call_either(D) ==
    calls < D /\ Do("either", <<>>, <<>>, either(frags))

Call_zero_or_more(D) ==
    calls < D /\ Do("zero_or_more", <<>>, <<>>, zero_or_more(frags))

Call_zero_or_more_lazy(D) ==
    calls < D /\ Do("zero_or_more_lazy", <<>>, <<>>, zero_or_more_lazy(frags))

Call_one_or_more(D) ==
    calls < D /\ Do("one_or_more", <<>>, <<>>, one_or_more(frags))

Call_one_or_more_lazy(D) ==
    calls < D /\ Do("one_or_more_lazy", <<>>, <<>>, one_or_more_lazy(frags))

Call_starts_with(D) ==
    calls < D /\ Do("starts_with", <<>>, <<>>, starts_with(frags))

Call_ends_with(D) ==
    calls < D /\ Do("ends_with", <<>>, <<>>, ends_with(frags))

Call_starts_and_ends_with(D) ==
    calls < D /\ Do("starts_and_ends_with", <<>>, <<>>, starts_and_ends_with(frags))

Call_chars(D) ==
    calls < D /\ Do("chars", <<>>, <<>>, chars(frags))

Call_nonchars(D) ==
    calls < D /\ Do("nonchars", <<>>, <<>>, nonchars(frags))

Call_optional_group(D) ==
    calls < D /\ Do("optional_group", <<>>, <<>>, optional_group(frags))

Call_group_either(D) ==
    calls < D /\ Do("group_either", <<>>, <<>>, group_either(frags))

Call_zero_or_more_group(D) ==
    calls < D /\ Do("zero_or_more_group", <<>>, <<>>, zero_or_more_group(frags))

Call_one_or_more_group(D) ==
    calls < D /\ Do("one_or_more_group", <<>>, <<>>, one_or_more_group(frags))

Call_group_chars(D) ==
    calls < D /\ Do("group_chars", <<>>, <<>>, group_chars(frags))

Call_group_nonchars(D) ==
    calls < D /\ Do("group_nonchars", <<>>, <<>>, group_nonchars(frags))

Call_named_group(N, D) ==
    calls < D /\ \E nm \in N : Do("named_group", <<>>, nm, named_group(nm, frags))

Call_exactly(Q, D) ==
    calls < D /\ \E q \in Q : Do("exactly", <<q>>, <<>>, exactly(q, frags))

Call_at_least(Q, D) ==
    calls < D /\ \E q \in Q : Do("at_least", <<q>>, <<>>, at_least(q, frags))

Call_at_most(Q, D) ==
    calls < D /\ \E q \in Q : Do("at_most", <<q>>, <<>>, at_most(q, frags))

Call_group_exactly(Q, D) ==
    calls < D /\ \E q \in Q : Do("group_exactly", <<q>>, <<>>, group_exactly(q, frags))

Call_group_at_least(Q, D) ==
    calls < D /\ \E q \in Q : Do("group_at_least", <<q>>, <<>>, group_at_least(q, frags))

Call_group_at_most(Q, D) ==
    calls < D /\ \E q \in Q : Do("group_at_most", <<q>>, <<>>, group_at_most(q, frags))

Call_between(Q, D) ==
    calls < D /\ \E mn \in Q, mx \in Q : Do("between", <<mn, mx>>, <<>>, between(mn, mx, frags))

Call_group_between(Q, D) ==
    calls < D /\ \E mn \in Q, mx \in Q : Do("group_between", <<mn, mx>>, <<>>, group_between(mn, mx, frags))

Step(Q, N, D) ==
    \/ Call_group(D)
    \/ Call_positive_lookahead(D)
    \/ Call_negative_lookahead(D)
    \/ Call_positive_lookbehind(D)
    \/ Call_negative_lookbehind(D)
    \/ Call_named_group(N, D)
    \/ Call_noncapturing_group(D)
    \/ Call_optional(D)
    \/ Call_either(D)
    \/ Call_exactly(Q, D)
    \/ Call_between(Q, D)
    \/ Call_at_least(Q, D)
    \/ Call_at_most(Q, D)
    \/ Call_zero_or_more(D)
    \/ Call_zero_or_more_lazy(D)
    \/ Call_one_or_more(D)
    \/ Call_one_or_more_lazy(D)
    \/ Call_starts_with(D)
    \/ Call_ends_with(D)
    \/ Call_starts_and_ends_with(D)
    \/ Call_chars(D)
    \/ Call_nonchars(D)
    \/ Call_optional_group(D)
    \/ Call_group_either(D)
    \/ Call_group_exactly(Q, D)
    \/ Call_group_between(Q, D)
    \/ Call_group_at_least(Q, D)
    \/ Call_group_at_most(Q, D)
    \/ Call_zero_or_more_group(D)
    \/ Call_one_or_more_group(D)
    \/ Call_group_chars(D)
    \/ Call_group_nonchars(D)

TypeOK ==
    /\ calls \in 0..MaxDepth
    /\ out.ok \in BOOLEAN

Init ==
    /\ frags \in FragLists
    /\ calls = 0
    /\ op = "none"
    /\ nums = <<>>
    /\ name = <<>>
    /\ listOfRegexStrs = <<>>
    /\ out = NoCall

\* One call on drawn inputs.
Next == Step(Quantities, Names, 1)

Spec == Init /\ [][Next]_vars

InitNest ==
    /\ frags \in NestFragLists
    /\ calls = 0
    /\ op = "none"
    /\ nums = <<>>
    /\ name = <<>>
    /\ listOfRegexStrs = <<>>
    /\ out = NoCall

\* Up to MaxDepth calls, each given the fragment the one before returned.
NextNest == Step(NestQuantities, NestNames, MaxDepth)

SpecNest == InitNest /\ [][NextNest]_vars

----------------------------------------------------------------------------
\* What the properties below are stated with.  None of it is used by the
\* functions above.

\* The three failures of the specification, as the module raises them: the
\* message is what tells one raise statement from another.
InvalidQuantity(o) ==
    ~o.ok /\ o.msg \in {MsgQuantity, MsgMinimum, MsgMaximum, MsgMinGreater}
EmptyOperand(o) == ~o.ok /\ o.msg = MsgNonblank
InvalidIdentifier(o) == ~o.ok /\ o.msg = MsgName

\* The fragments one after the other, built from the last fragment backwards.
RECURSIVE Concat(_)
Concat(fs) ==
    IF fs = <<>> THEN <<>>
    ELSE Concat(SubSeq(fs, 1, Len(fs) - 1)) \o fs[Len(fs)]

\* The non-empty fragments in their order with one "|" between neighbours.
RECURSIVE Alternation(_)
Alternation(fs) ==
    IF fs = <<>> THEN <<>>
    ELSE LET before == Alternation(SubSeq(fs, 1, Len(fs) - 1))
             last == fs[Len(fs)]
         IN IF last = <<>> THEN before
            ELSE IF before = <<>> THEN last
            ELSE before \o <<"|">> \o last

DigitValue(c) ==
    CASE c = "0" -> 0 [] c = "1" -> 1 [] c = "2" -> 2 [] c = "3" -> 3
      [] c = "4" -> 4 [] c = "5" -> 5 [] c = "6" -> 6 [] c = "7" -> 7
      [] c = "8" -> 8 [] c = "9" -> 9

RECURSIVE DecimalValue(_)
DecimalValue(ds) ==
    IF ds = <<>> THEN 0
    ELSE 10 * DecimalValue(SubSeq(ds, 1, Len(ds) - 1)) + DigitValue(ds[Len(ds)])

\* ds is the decimal text of the natural number n: digits only, no leading
\* zero, and its value is n.
IsDecimalOf(ds, n) ==
    /\ ds # <<>>
    /\ \A i \in 1..Len(ds) : ds[i] \in DigitChars
    /\ (Len(ds) > 1 => ds[1] # "0")
    /\ DecimalValue(ds) = n

\* s is p followed by t.
IsCat(s, p, t) ==
    /\ Len(s) = Len(p) + Len(t)
    /\ SubSeq(s, 1, Len(p)) = p
    /\ SubSeq(s, Len(p) + 1, Len(s)) = t

\* t is "{" + decimal text of n + "}".
IsBraces1(t, n) ==
    /\ Len(t) >= 3
    /\ t[1] = "{" /\ t[Len(t)] = "}"
    /\ IsDecimalOf(SubSeq(t, 2, Len(t) - 1), n)

\* t is "{" + decimal text of a + "," + decimal text of b + "}".
IsBraces2(t, a, b) ==
    /\ Len(t) >= 5
    /\ t[1] = "{" /\ t[Len(t)] = "}"
    /\ \E k \in 3..(Len(t) - 2) :
          /\ t[k] = ","
          /\ IsDecimalOf(SubSeq(t, 2, k - 1), a)
          /\ IsDecimalOf(SubSeq(t, k + 1, Len(t) - 1), b)

\* t is "{" + decimal text of a + ",}".
IsBracesAtLeast(t, a) ==
    /\ Len(t) >= 4
    /\ t[1] = "{" /\ t[Len(t) - 1] = "," /\ t[Len(t)] = "}"
    /\ IsDecimalOf(SubSeq(t, 2, Len(t) - 2), a)

\* t is "{," + decimal text of b + "}".
IsBracesAtMost(t, b) ==
    /\ Len(t) >= 4
    /\ t[1] = "{" /\ t[2] = "," /\ t[Len(t)] = "}"
    /\ IsDecimalOf(SubSeq(t, 3, Len(t) - 1), b)

NonNegativeInteger(x) == x.type = "int" /\ x.val >= 0

\* Some numeric argument of the call is not a non-negative integer, or the
\* call has two bounds and the minimum exceeds the maximum.
BadNumbers ==
    \/ \E i \in 1..Len(nums) : ~NonNegativeInteger(nums[i])
    \/ Len(nums) = 2 /\ nums[1].val > nums[2].val

PlainBounded == {"exactly", "between", "at_least", "at_most"}
GroupBounded == {"group_exactly", "group_between", "group_at_least", "group_at_most"}
Unbounded ==
    {"optional", "zero_or_more", "zero_or_more_lazy", "one_or_more", "one_or_more_lazy"}

\* The unwrapped operation of the call, on the call's arguments.
Unwrapped ==
    CASE op = "group_exactly" -> exactly(nums[1], listOfRegexStrs)
      [] op = "group_between" -> between(nums[1], nums[2], listOfRegexStrs)
      [] op = "group_at_least" -> at_least(nums[1], listOfRegexStrs)
      [] op = "group_at_most" -> at_most(nums[1], listOfRegexStrs)

----------------------------------------------------------------------------
\* The group identifier grammar [A-Za-z_]\w*, on the whole name: the first
\* character a letter or the underscore, every later one a word character.
MatchesIdentifier(nm) ==
    /\ nm # <<>>
    /\ nm[1] \in Letters \cup {"_"}
    /\ \A i \in 2..Len(nm) : nm[i] \in WordChars

\* C1: named_group(name, fragments...) returns '(?P<' + name + '>' + the
\* fragments' concatenation + ')' if and only if the whole name matches the
\* identifier grammar, and fails with InvalidIdentifier for every other name.
C1_NamedGroupIffIdentifier ==
    op = "named_group" =>
        IF MatchesIdentifier(name)
        THEN /\ out.ok
             /\ out.val = <<"(", "?", "P", "<">> \o name \o <<">">>
                            \o Concat(listOfRegexStrs) \o <<")">>
        ELSE InvalidIdentifier(out)

----------------------------------------------------------------------------
\* C2: a bounded quantifier, grouped or not, fails with InvalidQuantity if and
\* only if some numeric argument is not a non-negative integer or the minimum
\* exceeds the maximum; the grouped operation rejects the same numeric
\* arguments as the unwrapped one, with the same failure.
C2_InvalidQuantityIff ==
    /\ op \in PlainBounded \cup GroupBounded =>
          (InvalidQuantity(out) <=> BadNumbers)
    /\ op \in GroupBounded =>
          /\ InvalidQuantity(out) <=> InvalidQuantity(Unwrapped)
          /\ InvalidQuantity(out) => out = Unwrapped

C2_Witness ==
    /\ op = "group_between"
    /\ nums = <<PyInt(5), PyInt(2)>>
    /\ listOfRegexStrs = <<<<"a">>>>
    /\ InvalidQuantity(out)

----------------------------------------------------------------------------
\* The quantifier suffix of the call: t is the suffix the operation appends.
IsSuffix(t) ==
    CASE op = "optional" -> t = <<"?">>
      [] op = "zero_or_more" -> t = <<"*">>
      [] op = "zero_or_more_lazy" -> t = <<"*", "?">>
      [] op = "one_or_more" -> t = <<"+">>
      [] op = "one_or_more_lazy" -> t = <<"+", "?">>
      [] op = "exactly" -> IsBraces1(t, nums[1].val)
      [] op = "between" -> IsBraces2(t, nums[1].val, nums[2].val)
      [] op = "at_least" -> IsBracesAtLeast(t, nums[1].val)
      [] op = "at_most" -> IsBracesAtMost(t, nums[1].val)

\* C3: a quantifier called with valid numeric arguments fails with
\* EmptyOperand when its fragments concatenate to the empty string, and
\* otherwise returns the concatenation followed by its quantifier suffix.
C3_QuantifierOutcome ==
    (op \in Unbounded \cup PlainBounded /\ ~BadNumbers) =>
        LET F == Concat(listOfRegexStrs) IN
        IF F = <<>> THEN EmptyOperand(out)
        ELSE /\ out.ok
             /\ Len(out.val) > Len(F)
             /\ SubSeq(out.val, 1, Len(F)) = F
             /\ IsSuffix(SubSeq(out.val, Len(F) + 1, Len(out.val)))

\* at_least(10, 'a', '', 'b') has returned its operand and its two-digit suffix.
C3_Witness ==
    /\ op = "at_least"
    /\ nums = <<PyInt(10)>>
    /\ listOfRegexStrs = <<<<"a">>, <<>>, <<"b">>>>
    /\ out = Return(<<"a", "b", "{", "1", "0", ",", "}">>)

----------------------------------------------------------------------------
\* Which of the three conditions made the call fail, read from its arguments.
NumbersInvalid == op \in PlainBounded \cup GroupBounded /\ BadNumbers
NameMalformed == op = "named_group" /\ ~out.ok
FragmentsEmpty ==
    /\ op \notin {"named_group"} \cup GroupBounded
    /\ ~NumbersInvalid
    /\ Concat(listOfRegexStrs) = <<>>

\* The failure values of the specification's own examples of the other two
\* conditions: at_least(2) with no fragment, and named_group("2yr", "a").
EmptyExample == at_least(PyInt(2), <<>>)
NameExample == named_group(<<"2", "y", "r">>, <<<<"a">>>>)

\* C4 as stated, the kind of a failure value being its exception class: a
\* call that fails because a numeric argument is invalid never reports the
\* kind reported for empty fragments or for a malformed name.
C4_KindIdentifiesCondition ==
    (~out.ok /\ NumbersInvalid) =>
        /\ ~EmptyExample.ok /\ out.exc # EmptyExample.exc
        /\ ~NameExample.ok /\ out.exc # NameExample.exc

\* C4, amended: the message of a failure identifies which of the three
\* conditions caused it, and the exception class does not: it is TypeError
\* only when a numeric argument is not an int, and ValueError for a negative
\* number, a minimum above the maximum, empty fragments and a malformed name.
C4_MessageIdentifiesCondition ==
    ~out.ok =>
        /\ InvalidQuantity(out) <=> NumbersInvalid
        /\ EmptyOperand(out) <=> FragmentsEmpty
        /\ InvalidIdentifier(out) <=> NameMalformed
        /\ InvalidQuantity(out) \/ EmptyOperand(out) \/ InvalidIdentifier(out)
        /\ out.exc \in {"TypeError", "ValueError"}
        /\ out.exc = "TypeError" => \E i \in 1..Len(nums) : nums[i].type # "int"
        /\ (\A i \in 1..Len(nums) : nums[i].type = "int") => out.exc = "ValueError"

\* exactly(-1, 'a') has failed on its number with the class that empty
\* fragments and a malformed name fail with.
C4_Witness ==
    /\ op = "exactly"
    /\ nums = <<PyInt(-1)>>
    /\ listOfRegexStrs = <<<<"a">>>>
    /\ InvalidQuantity(out)
    /\ out.exc = "ValueError"
    /\ out.exc = EmptyExample.exc
    /\ out.exc = NameExample.exc

----------------------------------------------------------------------------
\* C6: for non-negative integers a <= b and fragments whose concatenation F
\* is non-empty, between(a, b, fragments...) returns F followed by "{", the
\* decimal text of a, ",", the decimal text of b, "}".
C6_BetweenText ==
    ( /\ op = "between"
      /\ NonNegativeInteger(nums[1]) /\ NonNegativeInteger(nums[2])
      /\ nums[1].val <= nums[2].val
      /\ Concat(listOfRegexStrs) # <<>> ) =>
        LET F == Concat(listOfRegexStrs)
            t == SubSeq(out.val, Len(F) + 1, Len(out.val))
        IN /\ out.ok
           /\ IsCat(out.val, F, t)
           /\ IsBraces2(t, nums[1].val, nums[2].val)

\* The boundary a = b = 0: between(0, 0, 'b', 'a') has returned 'ba{0,0}'.
C6_Witness ==
    /\ op = "between"
    /\ nums = <<PyInt(0), PyInt(0)>>
    /\ listOfRegexStrs = <<<<"b">>, <<"a">>>>
    /\ out = Return(<<"b", "a", "{", "0", ",", "0", "}">>)

----------------------------------------------------------------------------
\* No "|" at either end of s and no two in a row.
NoStrayBar(s) ==
    /\ s # <<>>
    /\ s[1] # "|"
    /\ s[Len(s)] # "|"
    /\ \A i \in 1..(Len(s) - 1) : ~(s[i] = "|" /\ s[i + 1] = "|")

AllEmpty(fs) == \A i \in 1..Len(fs) : fs[i] = <<>>

CatGroup == <<"(", "c", "a", "t", ")">>
DogGroup == <<"(", "d", "o", "g", ")">>

\* C7: either(fragments...) fails with EmptyOperand if and only if every
\* fragment is empty (or there is none); otherwise it returns the non-empty
\* fragments in their order joined by "|", with no enclosing group and no
\* leading, trailing or doubled "|"; either('(cat)', '(dog)') is '(cat)|(dog)'.
C7_Either ==
    op = "either" =>
        /\ EmptyOperand(out) <=> AllEmpty(listOfRegexStrs)
        /\ ~out.ok => EmptyOperand(out)
        /\ out.ok =>
              /\ out.val = Alternation(listOfRegexStrs)
              /\ NoStrayBar(out.val)
        /\ either(<<CatGroup, DogGroup>>) = Return(CatGroup \o <<"|">> \o DogGroup)

\* either('a', '', 'b') has returned 'a|b'.
C7_Witness ==
    /\ op = "either"
    /\ listOfRegexStrs = <<<<"a">>, <<>>, <<"b">>>>
    /\ out = Return(<<"a", "|", "b">>)

----------------------------------------------------------------------------
\* C8: chars and nonchars fail with EmptyOperand when the concatenation F of
\* their fragments is empty, and otherwise return '[' + F + ']' and
\* '[^' + F + ']'.
C8_CharClass ==
    op \in {"chars", "nonchars"} =>
        LET F == Concat(listOfRegexStrs) IN
        IF F = <<>> THEN EmptyOperand(out)
        ELSE /\ out.ok
             /\ out.val = (IF op = "chars" THEN <<"[">> ELSE <<"[", "^">>)
                            \o F \o <<"]">>

\* nonchars('a', 'b') has returned '[^ab]'.
C8_Witness ==
    /\ op = "nonchars"
    /\ listOfRegexStrs = <<<<"a">>, <<"b">>>>
    /\ out = Return(<<"[", "^", "a", "b", "]">>)

----------------------------------------------------------------------------
Wrappers ==
    {"group", "noncapturing_group", "positive_lookahead", "negative_lookahead",
     "positive_lookbehind", "negative_lookbehind"}

Opener ==
    CASE op = "group" -> <<"(">>
      [] op = "noncapturing_group" -> <<"(", "?", ":">>
      [] op = "positive_lookahead" -> <<"(", "?", "=">>
      [] op = "negative_lookahead" -> <<"(", "?", "!">>
      [] op = "positive_lookbehind" -> <<"(", "?", "<", "=">>
      [] op = "negative_lookbehind" -> <<"(", "?", "<", "!">>

\* The call's operation on other fragments.
SameWrapper(fs) ==
    CASE op = "group" -> group(fs)
      [] op = "noncapturing_group" -> noncapturing_group(fs)
      [] op = "positive_lookahead" -> positive_lookahead(fs)
      [] op = "negative_lookahead" -> negative_lookahead(fs)
      [] op = "positive_lookbehind" -> positive_lookbehind(fs)
      [] op = "negative_lookbehind" -> negative_lookbehind(fs)

\* C9: group, noncapturing_group and the four lookarounds never fail and
\* return their opener + the fragments' concatenation + ')'; the result
\* depends only on the concatenation, so group(A, B) = group(A + B), and a
\* call with no fragment returns the bare template.
C9_WrappersTotal ==
    op \in Wrappers =>
        /\ out.ok
        /\ out.val = Opener \o Concat(listOfRegexStrs) \o <<")">>
        /\ out = SameWrapper(<<Concat(listOfRegexStrs)>>)
        /\ Len(listOfRegexStrs) = 2 =>
              out = SameWrapper(<<listOfRegexStrs[1] \o listOfRegexStrs[2]>>)
        /\ listOfRegexStrs = <<>> => out.val = Opener \o <<")">>

\* group('a', 'b') has returned '(ab)'.
C9_Witness ==
    /\ op = "group"
    /\ listOfRegexStrs = <<<<"a">>, <<"b">>>>
    /\ out = Return(<<"(", "a", "b", ")">>)

----------------------------------------------------------------------------
\* No "|" next to the parenthesis that opens s or the one that closes it.
NoBarAtParen(s) ==
    /\ Len(s) >= 2
    /\ s[1] = "(" /\ s[2] # "|"
    /\ s[Len(s)] = ")" /\ s[Len(s) - 1] # "|"

\* C10: group_either(fragments...) never fails; it drops the empty fragments
\* and returns '(' + the others in their order joined by '|' + ')', with no
\* '|' next to its parentheses and no doubled '|'; when every fragment is empty
\* or none is given it returns '()'.
C10_GroupEither ==
    op = "group_either" =>
        /\ out.ok
        /\ out.val = <<"(">> \o Alternation(listOfRegexStrs) \o <<")">>
        /\ NoBarAtParen(out.val)
        /\ \A i \in 1..(Len(out.val) - 1) : ~(out.val[i] = "|" /\ out.val[i + 1] = "|")
        /\ AllEmpty(listOfRegexStrs) => out.val = <<"(", ")">>

\* group_either('', 'a', 'b') has returned '(a|b)'.
C10_Witness ==
    /\ op = "group_either"
    /\ listOfRegexStrs = <<<<>>, <<"a">>, <<"b">>>>
    /\ out = Return(<<"(", "a", "|", "b", ")">>)

----------------------------------------------------------------------------
\* How many of the first k characters of s are ch.
Count(s, ch, k) == Cardinality({i \in 1..k : s[i] = ch})

\* Every closing c of s has its opening o before it, and none is left open.
Balanced(s, o, c) ==
    /\ \A k \in 1..Len(s) : Count(s, o, k) >= Count(s, c, k)
    /\ Count(s, o, Len(s)) = Count(s, c, Len(s))

\* Position i of s lies inside a bracketed character class.
InBrackets(s, i) == Count(s, "[", i - 1) > Count(s, "]", i - 1)

\* Position i of s starts a quantifier ("?" after "(" opens a group form).
StartsQuantifier(s, i) ==
    \/ s[i] \in {"*", "+", "{"}
    \/ s[i] = "?" /\ (i = 1 \/ s[i - 1] # "(")

\* Position i of s ends a quantifier.
EndsQuantifier(s, i) ==
    \/ s[i] \in {"*", "+", "}"}
    \/ s[i] = "?" /\ (i = 1 \/ s[i - 1] # "(")

\* A "*" or "{...}" directly follows another quantifier ("?" and "+" after a
\* quantifier only change its mode, and are not counted).
QuantifierOnQuantifier(s) ==
    \E i \in 2..Len(s) :
        /\ ~InBrackets(s, i)
        /\ s[i] \in {"*", "{"}
        /\ EndsQuantifier(s, i - 1)

\* A quantifier stands first, or directly after "(" or "|".
QuantifierOnNothing(s) ==
    \E i \in 1..Len(s) :
        /\ ~InBrackets(s, i)
        /\ StartsQuantifier(s, i)
        /\ (i = 1 \/ s[i - 1] \in {"(", "|"})

WellFormed(s) ==
    /\ Balanced(s, "(", ")")
    /\ Balanced(s, "[", "]")
    /\ ~QuantifierOnQuantifier(s)
    /\ ~QuantifierOnNothing(s)

\* C5 as stated: after any nesting of composition calls, every string a call
\* returns is well formed: parentheses and brackets balanced, and no
\* quantifier suffix applied directly to another quantifier or to nothing.
C5_Closure == (op # "none" /\ out.ok) => WellFormed(out.val)

\* C5, amended: starting from fragments and group names whose parentheses
\* and brackets are balanced, every string a call returns, at any nesting,
\* has balanced parentheses and brackets.
C5_Balanced ==
    (op # "none" /\ out.ok) =>
        /\ Balanced(out.val, "(", ")")
        /\ Balanced(out.val, "[", "]")

\* zero_or_more(zero_or_more('a')) has returned 'a**': balanced, and a
\* quantifier on a quantifier.
C5_Witness ==
    /\ calls = 2
    /\ op = "zero_or_more"
    /\ listOfRegexStrs = <<<<"a", "*">>>>
    /\ out = Return(<<"a", "*", "*">>)
    /\ QuantifierOnQuantifier(out.val)

----------------------------------------------------------------------------
GroupedQuantifiers == GroupBounded \cup {"optional_group"}

\* The plain quantifier of the call, given the one fragment group(F...)
\* returns for the call's fragments.
PlainOfGroup ==
    LET g == <<group(listOfRegexStrs).val>> IN
    CASE op = "group_exactly" -> exactly(nums[1], g)
      [] op = "group_between" -> between(nums[1], nums[2], g)
      [] op = "group_at_least" -> at_least(nums[1], g)
      [] op = "group_at_most" -> at_most(nums[1], g)
      [] op = "optional_group" -> optional(g)

\* C11: each grouped quantifier has the outcome of the plain quantifier
\* applied to group(F...): the same returned string when one succeeds, the
\* same failure when one fails; the grouped forms never fail with
\* EmptyOperand.
C11_GroupedIsPlainOfGroup ==
    op \in GroupedQuantifiers =>
        /\ group(listOfRegexStrs).ok
        /\ out = PlainOfGroup
        /\ ~EmptyOperand(out)
        /\ out.ok <=> ~BadNumbers

\* group_at_least(10) with no fragment has returned '(){10,}', as
\* at_least(10, group()) does.
C11_Witness ==
    /\ op = "group_at_least"
    /\ nums = <<PyInt(10)>>
    /\ listOfRegexStrs = <<>>
    /\ out = Return(<<"(", ")", "{", "1", "0", ",", "}">>)
    /\ out = at_least(PyInt(10), <<<<"(", ")">>>>)

====
